---- MODULE Spec2Model ----
(***************************************************************************)
(* Axobase / FeralLobster: the Telegram bot's in-memory session key cache  *)
(* (bot/handlers) and the orchestrator's ledger of Soul, Deployment and    *)
(* EventLog rows with the upload route, the chain event listener and the   *)
(* Akash deployment service (orchestrator/).                               *)
(*                                                                         *)
(* Two specifications share this module:                                   *)
(*   VaultSpec - the bot process: export / refresh / upload / selection    *)
(*               handlers over _session_cache and the wall clock;          *)
(*   Spec      - the orchestrator process: upload_file requests, the       *)
(*               listener thread, deploy_to_akash and close_deployment     *)
(*               over the three tables.                                    *)
(* The two processes share no state (the bot talks to the orchestrator     *)
(* over HTTP only), so each specification leaves the other's variables     *)
(* unchanged.                                                              *)
(***************************************************************************)
EXTENDS Integers, Sequences, FiniteSets, TLC

VARIABLES
    \* ---- bot process (bot/handlers/export.py, upload.py, selection.py)
    session_cache,   \* _session_cache: session_id -> entry (a dict)
    now,             \* datetime.now(), in seconds
    issued,          \* the uuid4 values already drawn
    handler,         \* one record per handler execution (an update being served)
    key_returns,     \* history: per session id, how many get_session_private_key
                     \* calls made before its expiry returned the private key
    superseded,      \* history: the session ids the user has refreshed away
                     \* or cancelled
    birth_dirs,      \* the session ids whose directory /tmp/axo_birth_<id>,
                     \* holding session_key.pem, exists on the orchestrator's disk
    \* ---- orchestrator process
    souls,           \* table souls, in id order (row i has id i)
    deployments,     \* table deployments, in id order
    event_logs,      \* table event_logs, in id order
    upload,          \* one record per upload_file request
    arweave_calls,   \* how many times upload_to_arweave was called, per file hash
    listener,        \* EventListener: running flag and the polling thread
    dispatched,      \* history: the events handed to a handler, in order: the
                     \* log, the id of the Soul the handler found (0: none),
                     \* whether the handler scheduled a deployment task, and
                     \* the id of the EventLog row saved for it (0: not saved)
    deploy,          \* one record per deploy_to_akash call
    close,           \* one record per close_deployment call
    lookup           \* the last get_soul_by_wallet request and its answer

botVars == <<session_cache, now, issued, handler, key_returns, superseded,
             birth_dirs>>
orchVars == <<souls, deployments, event_logs, upload, arweave_calls,
              listener, dispatched, deploy, close, lookup>>
vars == <<session_cache, now, issued, handler, key_returns, superseded,
          birth_dirs,
          souls, deployments, event_logs, upload, arweave_calls,
          listener, dispatched, deploy, close, lookup>>

(***************************************************************************)
(* Bounds                                                                  *)
(***************************************************************************)
MaxSessions == 2     \* uuid4 values available to export / refresh
MaxHandlers == 2     \* handler executions that read the key cache
MaxNow == 302        \* the clock stops here

\* The steps by which the model's clock advances (seconds): 150 + 150 reaches
\* the expiry of a session issued at 0 exactly, 150 + 151 passes it by a second.
TickSteps == {150, 151}

(***************************************************************************)
(* Session key cache: bot/handlers/export.py                               *)
(***************************************************************************)
SessionIds == 1..MaxSessions
Handlers == 1..MaxHandlers
Users == {"u1"}

\* timedelta(seconds=300)
SESSION_TTL == 300

\* Python's None
None == <<>>

\* serialize_private_key(generate_session_keys()[1]): a fresh key per session
PrivateKeyPem(sid) == <<"PEM", sid>>

\* d[k] = v on a dict
DictPut(d, k, v) == [x \in (DOMAIN d) \cup {k} |-> IF x = k THEN v ELSE d[x]]

\* del d[k] on a dict
DictDel(d, k) == [x \in (DOMAIN d) \ {k} |-> d[x]]

\* datetime.now() + timedelta(seconds=300)
ExpiryTime(t) == t + SESSION_TTL

\* the entry export_handler and refresh_export_handler store
SessionEntry(sid, t, user) ==
    [private_key_pem |-> PrivateKeyPem(sid), expiry |-> ExpiryTime(t), user_id |-> user]

\* _cleanup_expired_sessions: drops the entries with expiry < now
CleanupExpiredSessions(cache, t) ==
    [sid \in {s \in DOMAIN cache : ~(cache[s].expiry < t)} |-> cache[sid]]

\* get_session_private_key: the cache after the call (the sweep is its only effect)
GetKeyCache(cache, t) == CleanupExpiredSessions(cache, t)

\* get_session_private_key: the value returned
GetKeyResult(cache, t, sid) ==
    LET swept == GetKeyCache(cache, t)
    IN  IF sid \in DOMAIN swept THEN swept[sid].private_key_pem ELSE None

\* clear_session
ClearSession(cache, sid) ==
    IF sid \in DOMAIN cache THEN DictDel(cache, sid) ELSE cache

\* invalidate_session: imported by upload.py from handlers.export, which does
\* not define it; modelled from the specification's invalidate(sessionId)
InvalidateSession(cache, sid) ==
    IF sid \in DOMAIN cache THEN DictDel(cache, sid) ELSE cache

\* uuid.uuid4(): a value never drawn before (the values are interchangeable,
\* so they are drawn in order)
FreshUuid(sid) == sid \notin issued /\ \A s \in SessionIds : s < sid => s \in issued

\* handler executions are numbered in their order of arrival
NextArrival(h) ==
    handler[h].pc = "idle" /\ \A g \in Handlers : g < h => handler[g].pc # "idle"

IdleHandler ==
    [pc |-> "idle", kind |-> "none", session_id |-> 0, private_key |-> None,
     result |-> "none"]

\* export_handler (/export). The uuid is drawn before the key pair is
\* generated; a key generation failure replies and returns.
ExportHandler(sid, user, keygen_ok) ==
    /\ FreshUuid(sid)
    /\ issued' = issued \cup {sid}
    /\ session_cache' =
          IF keygen_ok
          THEN CleanupExpiredSessions(
                   DictPut(session_cache, sid, SessionEntry(sid, now, user)), now)
          ELSE session_cache
    /\ UNCHANGED <<now, handler, key_returns, superseded, birth_dirs>>
    /\ UNCHANGED orchVars

\* the session id in the callback data of a refresh button that was sent by an
\* earlier run of the bot process: the cache never held it
StaleId == 0

\* refresh_export_handler (callback refresh:<old>): deletes the old session,
\* then issues a new one; it does not sweep. The button belongs to a message
\* an export or refresh sent earlier.
RefreshExportHandler(old, new, user, keygen_ok) ==
    /\ old \in issued \cup {StaleId}
    /\ FreshUuid(new)
    /\ issued' = issued \cup {new}
    /\ LET dropped == IF old \in DOMAIN session_cache
                      THEN DictDel(session_cache, old) ELSE session_cache
       IN  session_cache' =
              IF keygen_ok
              THEN DictPut(dropped, new, SessionEntry(new, now, user))
              ELSE dropped
    /\ superseded' = superseded \cup ({old} \ {StaleId})
    /\ UNCHANGED <<now, handler, key_returns, birth_dirs>>
    /\ UNCHANGED orchVars

\* selection_handler for the callback cancel:export (selection.py 39-46),
\* pressed under the message of session sid: the message is edited; the
\* callback data carries no session id and the cache is not touched.
CancelExport(sid) ==
    /\ sid \in DOMAIN session_cache
    /\ superseded' = superseded \cup {sid}
    /\ UNCHANGED <<session_cache, now, issued, handler, key_returns, birth_dirs>>
    /\ UNCHANGED orchVars

\* key_returns after a get_session_private_key(sid) call made at time t on
\* cache that returned key: the returns made before the entry's expiry count
CountReturn(cache, t, sid, key) ==
    IF key # None /\ t < cache[sid].expiry
    THEN [key_returns EXCEPT ![sid] = @ + 1]
    ELSE key_returns

\* upload_handler up to its first await after the key lookup (upload.py 32-75)
\* for a document that passes the size and file name checks (other documents
\* are refused before the cache is touched): get_session_private_key; without
\* a key it replies "expired or invalid" and returns.
UploadHandlerBegin(h, sid) ==
    /\ NextArrival(h)
    /\ LET key == GetKeyResult(session_cache, now, sid)
       IN  /\ session_cache' = GetKeyCache(session_cache, now)
           /\ key_returns' = CountReturn(session_cache, now, sid, key)
           /\ handler' = [handler EXCEPT ![h] =
                [pc |-> IF key = None THEN "done" ELSE "processing",
                 kind |-> "upload", session_id |-> sid, private_key |-> key,
                 result |-> IF key = None THEN "not_found" ELSE "none"]]
    /\ UNCHANGED <<now, issued, superseded, birth_dirs>>
    /\ UNCHANGED orchVars

\* create_birth (orchestrator/main.py 106-172) for the session id and private
\* key _process_upload posts: the key is written to session_key.pem in
\* /tmp/axo_birth_<sid>; the directory is removed at the end of the success
\* path only, an exception is answered with HTTP 500.
CreateBirth(dirs, sid, outcome) ==
    CASE outcome = "success" -> dirs \ {sid}
      [] outcome = "birth_failed" -> dirs \cup {sid}
      [] OTHER -> dirs

\* upload_handler after the download and _process_upload (upload.py 77-130):
\* on success the session is invalidated; a failed result or an exception
\* leaves the cache alone. outcome: "exception" - the download raised;
\* "failed" - the request did not reach create_birth; "birth_failed" -
\* create_birth answered 500 after it had written the key; "success".
UploadHandlerEnd(h, outcome) ==
    /\ handler[h].pc = "processing"
    /\ handler[h].kind = "upload"
    /\ birth_dirs' = CreateBirth(birth_dirs, handler[h].session_id, outcome)
    /\ session_cache' =
          IF outcome = "success"
          THEN InvalidateSession(session_cache, handler[h].session_id)
          ELSE session_cache
    /\ handler' = [handler EXCEPT ![h].pc = "done", ![h].result = outcome]
    /\ UNCHANGED <<now, issued, key_returns, superseded>>
    /\ UNCHANGED orchVars

\* _handle_instance_selection (selection.py 69-173): there is no await between
\* the key lookup and clear_session, so the body is one step. data_ok: the
\* encrypted data is present, decrypts, has the fields and the instance id.
HandleInstanceSelection(h, sid, data_ok) ==
    /\ NextArrival(h)
    /\ LET key == GetKeyResult(session_cache, now, sid)
           swept == GetKeyCache(session_cache, now)
       IN  /\ session_cache' =
                 IF key # None /\ data_ok THEN ClearSession(swept, sid) ELSE swept
           /\ key_returns' = CountReturn(session_cache, now, sid, key)
           /\ handler' = [handler EXCEPT ![h] =
                [pc |-> "done", kind |-> "selection", session_id |-> sid,
                 private_key |-> key,
                 result |-> IF key = None THEN "not_found"
                            ELSE IF data_ok THEN "selected" ELSE "failed"]]
    /\ UNCHANGED <<now, issued, superseded, birth_dirs>>
    /\ UNCHANGED orchVars

\* the wall clock
Tick(d) ==
    /\ now + d <= MaxNow
    /\ now' = now + d
    /\ UNCHANGED <<session_cache, issued, handler, key_returns, superseded,
                   birth_dirs>>
    /\ UNCHANGED orchVars

(***************************************************************************)
(* Ledger tables: orchestrator/database.py                                 *)
(***************************************************************************)
\* NULL in a string column
Null == "NULL"

\* blake3 hex digests of uploaded files
FileHashes == {"h1", "h2"}

\* the soul with memory_hash = h, as db.query(Soul).filter(...).first()
\* returns it: its id, or 0 for no row
SoulByHash(table, h) ==
    IF \E i \in DOMAIN table : table[i].memory_hash = h
    THEN CHOOSE i \in DOMAIN table :
            /\ table[i].memory_hash = h
            /\ \A j \in DOMAIN table : table[j].memory_hash = h => i <= j
    ELSE 0

\* a faulty variant: the column without its unique constraint
NoUniqueConstraint(table, h) == FALSE

\* Soul.memory_hash is unique=True: an INSERT of a second row with the same
\* memory_hash fails at commit (IntegrityError)
UniqueViolation(table, h) == \E i \in DOMAIN table : table[i].memory_hash = h

\* Soul(memory_hash, arweave_id, status=UPLOADED, initial_funds) as upload_file
\* builds it; the id is the table's next autoincrement value
NewSoul(table, h, arweave_id) ==
    [id |-> Len(table) + 1, memory_hash |-> h, arweave_id |-> arweave_id,
     bot_wallet |-> Null, status |-> "UPLOADED", akash_uri |-> None]

\* Deployment(soul_id, status=CREATING)
NewDeployment(table, soul_id) ==
    [id |-> Len(table) + 1, soul_id |-> soul_id, status |-> "CREATING", logs |-> ""]

(***************************************************************************)
(* upload_file: orchestrator/routers/upload.py                             *)
(***************************************************************************)
MaxUploads == 2      \* upload_file requests

Requests == 1..MaxUploads

IdleUpload ==
    [pc |-> "idle", file_hash |-> "none", response |-> "none",
     arweave_id |-> None, soul_id |-> 0, storage |-> "none"]

\* requests are numbered in their order of arrival
NextUpload(r) ==
    upload[r].pc = "idle" /\ \A q \in Requests : q < r => upload[q].pc # "idle"

\* the id upload_to_arweave returns for the file
ArweaveId(h) == <<"ar", h>>

\* a faulty variant: a failed storage upload leaves the id empty
NoPlaceholderId(h) == None

\* f"mock_{file_hash[:32]}": the placeholder used when the storage upload raises
MockArweaveId(h) == <<"mock", h>>

\* a faulty variant: the storage upload is started before the lookup of an existing
\* Soul, so it also runs for a file that was uploaded before
UploadFileLookupUploadsFirst(r, h) ==
    LET existing == SoulByHash(souls, h)
    IN  /\ arweave_calls' = [arweave_calls EXCEPT ![h] = @ + 1]
        /\ upload' = [upload EXCEPT ![r] =
               IF existing # 0
               THEN [pc |-> "done", file_hash |-> h, response |-> "exists",
                     arweave_id |-> souls[existing].arweave_id, soul_id |-> 0,
                     storage |-> "none"]
               ELSE [pc |-> "arweave", file_hash |-> h, response |-> "none",
                     arweave_id |-> None, soul_id |-> 0, storage |-> "none"]]

\* upload_file from the hash to the storage upload (upload.py 99-119): the
\* lookup of an existing Soul answers "exists" with its arweave_id; otherwise
\* upload_to_arweave is called and awaited.
UploadFileLookup(r, h) ==
    LET existing == SoulByHash(souls, h)
    IN  IF existing # 0
        THEN /\ upload' = [upload EXCEPT ![r] =
                   [pc |-> "done", file_hash |-> h, response |-> "exists",
                    arweave_id |-> souls[existing].arweave_id, soul_id |-> 0,
                     storage |-> "none"]]
             /\ UNCHANGED arweave_calls
        ELSE /\ upload' = [upload EXCEPT ![r] =
                   [IdleUpload EXCEPT !.pc = "arweave", !.file_hash = h]]
             /\ arweave_calls' = [arweave_calls EXCEPT ![h] = @ + 1]

\* upload_file up to the await of the storage upload (upload.py 70-119) for
\* a .json file within the size limit (other files are refused with 400 / 413
\* before anything is read or written).
UploadFileBegin(r, h) ==
    /\ NextUpload(r)
    /\ UploadFileLookup(r, h)
    /\ UNCHANGED <<souls, deployments, event_logs, listener, dispatched, deploy, close, lookup>>
    /\ UNCHANGED botVars

\* upload_file after the storage upload (upload.py 119-155): a failed storage
\* upload is replaced by the mock id; the Soul is inserted and committed; an
\* exception of the commit is answered with HTTP 500.
UploadFileFinish(r, arweave_ok) ==
    /\ upload[r].pc = "arweave"
    /\ LET h == upload[r].file_hash
           aid == IF arweave_ok THEN ArweaveId(h) ELSE MockArweaveId(h)
           st  == IF arweave_ok THEN "ok" ELSE "raised"
       IN  IF UniqueViolation(souls, h)
           THEN /\ upload' = [upload EXCEPT ![r].pc = "done",
                                            ![r].response = "http500",
                                            ![r].storage = st]
                /\ UNCHANGED souls
           ELSE /\ souls' = Append(souls, NewSoul(souls, h, aid))
                /\ upload' = [upload EXCEPT ![r].pc = "done",
                                            ![r].response = "success",
                                            ![r].arweave_id = aid,
                                            ![r].storage = st,
                                            ![r].soul_id = Len(souls) + 1]
    /\ UNCHANGED <<deployments, event_logs, arweave_calls, listener, dispatched,
                   deploy, close, lookup>>
    /\ UNCHANGED botVars

(***************************************************************************)
(* The chain as the RPC node reports it                                    *)
(***************************************************************************)
\* The logs of the FeralRite contract, in chain order (block, then position).
\* memoryHash is the bytes32 value, botWallet the checksummed address.
ChainLogs ==
    << [event |-> "FeralRegistered", transactionHash |-> "tx1", blockNumber |-> 1,
        memoryHash |-> "b1", botWallet |-> "0xAb"],
       [event |-> "ImmolationConfirmed", transactionHash |-> "tx2", blockNumber |-> 2,
        memoryHash |-> "b1", botWallet |-> Null],
       [event |-> "FeralRegistered", transactionHash |-> "tx3", blockNumber |-> 3,
        memoryHash |-> "b2", botWallet |-> "0xCd"] >>

LogIds == DOMAIN ChainLogs

MaxDelivered == 2    \* logs returned by the filters in one run; a log returned
                     \* again is a replay (a re-org, an overlapping poll window)

\* args['memoryHash'].hex(): the hex digest of the bytes32 value
Hex(b) == CASE b = "b1" -> "h1" [] b = "b2" -> "h2"

\* str.lower() on an address
Lower(w) == CASE w = "0xAb" -> "0xab" [] w = "0xCd" -> "0xcd"
              [] w = "0xab" -> "0xab" [] w = "0xcd" -> "0xcd"

\* the logs the filters have returned so far: those handled and those still
\* in a thread's batch
Delivered ==
    LET Pending[t \in 0..Len(listener.threads)] ==
            IF t = 0 THEN 0 ELSE Len(listener.threads[t].batch) + Pending[t - 1]
    IN  Len(dispatched) + Pending[Len(listener.threads)]

\* the block that is 'latest' when a filter is created: 0 (before every log)
\* or the block of one of the logs
LatestBlocks == {0} \cup {ChainLogs[i].blockNumber : i \in LogIds}

\* what <filter>.get_new_entries() may return to thread th for event type ty:
\* some of the logs of that type in blocks after the one that was 'latest'
\* when the filter was created (create_filter(fromBlock='latest'))
Deliverable(th, ty) ==
    {S \in SUBSET {i \in LogIds : /\ ChainLogs[i].event = ty
                                  /\ ChainLogs[i].blockNumber > th.from_block} :
        Delivered + Cardinality(S) <= MaxDelivered}

\* the log ids of S in chain order
InChainOrder(S) == SelectSeq([i \in LogIds |-> i], LAMBDA i : i \in S)

(***************************************************************************)
(* EventListener: orchestrator/services/listener.py                        *)
(***************************************************************************)
MaxStarts == 1       \* polling threads start() may create
MaxRestarts == 1     \* polling threads start() may create after a stop()

Threads == 1..(MaxStarts + MaxRestarts)

\* a faulty variant: saving an event clears the table before the insert
SaveEventAfterPurge(table, e, db_ok) ==
    IF db_ok
    THEN <<[id |-> Len(table) + 1, event_type |-> e.event,
            tx_hash |-> e.transactionHash,
            block_number |-> e.blockNumber, processed |-> 0]>>
    ELSE table

\* _save_event: one EventLog row with processed = 0 is added and committed; a
\* failure of the database is logged and swallowed
SaveEvent(table, e, db_ok) ==
    IF db_ok
    THEN Append(table, [id |-> Len(table) + 1, event_type |-> e.event,
                        tx_hash |-> e.transactionHash,
                        block_number |-> e.blockNumber, processed |-> 0])
    ELSE table

\* _handle_feral_registered: the Soul with the event's memory hash gets status
\* REGISTERED and the lower-cased wallet; without such a Soul only a warning
\* is logged. (asyncio.create_task is called from the polling thread, which
\* runs no event loop: it raises RuntimeError, which is caught and logged, so
\* no deployment starts here.)
HandleFeralRegistered(table, e) ==
    LET sid == SoulByHash(table, Hex(e.memoryHash))
    IN  IF sid # 0
        THEN [table EXCEPT ![sid].status = "REGISTERED",
                           ![sid].bot_wallet = Lower(e.botWallet)]
        ELSE table

\* _handle_immolation_confirmed: the Soul with the event's memory hash gets
\* status DORMANT
HandleImmolationConfirmed(table, e) ==
    LET sid == SoulByHash(table, Hex(e.memoryHash))
    IN  IF sid # 0 THEN [table EXCEPT ![sid].status = "DORMANT"] ELSE table

\* a faulty variant: the task is scheduled whenever the Soul was found
TaskScheduledForSoul(soul_found) == soul_found

\* asyncio.create_task(deploy_to_akash_async(memory_hash)) in
\* _handle_feral_registered (listener.py 133-138): whether a deployment task
\* is scheduled. The handler runs in the polling thread, which has no running
\* event loop, so create_task raises RuntimeError; the except clause logs it
\* and nothing is scheduled.
TaskScheduled(soul_found) == FALSE

\* self.event_handlers[event type]
HandleEvent(table, e) ==
    IF e.event = "FeralRegistered"
    THEN HandleFeralRegistered(table, e)
    ELSE HandleImmolationConfirmed(table, e)

\* start(): refused while running; connect() must succeed; then running is
\* set and the polling thread is started. has_contract: settings.contract_address
\* is set, so connect() loads the contract.
ListenerStartWithin(limit, connect_ok, has_contract) ==
    /\ ~listener.running
    /\ Len(listener.threads) < limit
    /\ listener' =
          IF connect_ok
          THEN [running |-> TRUE, contract |-> has_contract,
                connect_failed |-> FALSE,
                threads |-> Append(listener.threads,
                                   [pc |-> "filters", batch |-> <<>>,
                                    time_bound |-> FALSE, from_block |-> 0,
                                    iter_last |-> 0])]
          ELSE [listener EXCEPT !.connect_failed = TRUE]
    /\ UNCHANGED <<souls, deployments, event_logs, upload, arweave_calls,
                   dispatched, deploy, close, lookup>>
    /\ UNCHANGED botVars

\* start() while no thread was created yet
ListenerStart(connect_ok, has_contract) ==
    ListenerStartWithin(MaxStarts, connect_ok, has_contract)

\* start(), also when it comes after a stop(): it creates a new thread
\* whatever became of the one before
ListenerStartAgain(connect_ok, has_contract) ==
    ListenerStartWithin(MaxStarts + MaxRestarts, connect_ok, has_contract)

\* stop(): clears running and joins the thread for at most 5 s
ListenerStop ==
    /\ listener.running
    /\ listener' = [listener EXCEPT !.running = FALSE]
    /\ UNCHANGED <<souls, deployments, event_logs, upload, arweave_calls,
                   dispatched, deploy, close, lookup>>
    /\ UNCHANGED botVars

\* _poll_events before the loop: returns without a contract; creates the two
\* filters from the block that is 'latest' at that moment; an exception here
\* ends the thread (outer except).
ListenerCreateFilters(t, rpc_ok, latest) ==
    /\ t \in DOMAIN listener.threads
    /\ listener.threads[t].pc = "filters"
    /\ listener' =
          IF listener.contract /\ rpc_ok
          THEN [listener EXCEPT !.threads[t].pc = "loop",
                                !.threads[t].from_block = latest]
          ELSE [listener EXCEPT !.threads[t].pc = "exited"]
    /\ UNCHANGED <<souls, deployments, event_logs, upload, arweave_calls,
                   dispatched, deploy, close, lookup>>
    /\ UNCHANGED botVars

\* the thread at time.sleep(self.poll_interval) at the end of an iteration:
\* the `import time` before it has bound the local name time. iter_last is
\* the last log (in chain order) an event loop of the running iteration has
\* handled, 0 between iterations.
AtSleep(th) ==
    [th EXCEPT !.pc = "sleep", !.batch = <<>>, !.time_bound = TRUE,
               !.iter_last = 0]

\* the thread's state after get_new_entries of the filter for ty: a batch is
\* iterated, an empty batch moves on. A failed call goes to the inner except,
\* which calls time.sleep: `import time` is a statement of the loop body
\* (line 217), so time is a local name that is bound only once an iteration
\* has reached it; before that the except clause itself raises
\* (UnboundLocalError) and the outer except ends the thread.
AfterPoll(th, ty, S, rpc_ok) ==
    IF ~rpc_ok
    THEN [th EXCEPT !.pc = IF th.time_bound THEN "sleep" ELSE "exited",
                    !.batch = <<>>, !.iter_last = 0]
    ELSE IF S = {}
         THEN IF ty = "FeralRegistered"
              THEN [th EXCEPT !.pc = "immolation", !.batch = <<>>]
              ELSE AtSleep(th)
         ELSE [th EXCEPT !.pc = IF ty = "FeralRegistered" THEN "feral_loop"
                                ELSE "immolation_loop",
                         !.batch = InChainOrder(S)]

\* one get_new_entries call of thread t for type ty
ListenerPoll(t, ty, S, rpc_ok) ==
    /\ S \in Deliverable(listener.threads[t], ty)
    /\ rpc_ok \/ S = {}
    /\ listener' = [listener EXCEPT !.threads[t] =
                      AfterPoll(listener.threads[t], ty, S, rpc_ok)]
    /\ UNCHANGED <<souls, deployments, event_logs, upload, arweave_calls,
                   dispatched, deploy, close, lookup>>
    /\ UNCHANGED botVars

\* thread t is at the head of the loop: before the first iteration, or in
\* the sleep that ends an iteration
AtLoopHead(t) ==
    /\ t \in DOMAIN listener.threads
    /\ listener.threads[t].pc \in {"loop", "sleep"}

\* `while self.running` ends the thread once stop() has cleared the flag
ListenerExit(t) ==
    /\ AtLoopHead(t)
    /\ ~listener.running
    /\ listener' = [listener EXCEPT !.threads[t].pc = "exited"]
    /\ UNCHANGED <<souls, deployments, event_logs, upload, arweave_calls,
                   dispatched, deploy, close, lookup>>
    /\ UNCHANGED botVars

\* an iteration begins: feral_filter.get_new_entries()
ListenerPollFeral(t, S, rpc_ok) ==
    /\ AtLoopHead(t)
    /\ listener.running
    /\ ListenerPoll(t, "FeralRegistered", S, rpc_ok)

\* immolation_filter.get_new_entries()
ListenerPollImmolation(t, S, rpc_ok) ==
    /\ t \in DOMAIN listener.threads
    /\ listener.threads[t].pc = "immolation"
    /\ ListenerPoll(t, "ImmolationConfirmed", S, rpc_ok)

\* the thread's state after the body of a for loop ran for the head of batch
AfterEvent(th) ==
    IF Len(th.batch) > 1
    THEN [th EXCEPT !.batch = Tail(th.batch)]
    ELSE IF th.pc = "feral_loop"
         THEN [th EXCEPT !.pc = "immolation", !.batch = <<>>]
         ELSE AtSleep(th)

\* the body of a for loop of _poll_events for one event: _save_event, then
\* the handler of the event's type
ListenerDispatch(t, db_ok) ==
    /\ t \in DOMAIN listener.threads
    /\ listener.threads[t].pc \in {"feral_loop", "immolation_loop"}
    /\ LET e == ChainLogs[Head(listener.threads[t].batch)]
       IN  /\ event_logs' = SaveEvent(event_logs, e, db_ok)
           /\ souls' = HandleEvent(souls, e)
           /\ dispatched' = Append(dispatched,
                 [log |-> Head(listener.threads[t].batch),
                  soul |-> SoulByHash(souls, Hex(e.memoryHash)),
                  task |-> /\ e.event = "FeralRegistered"
                           /\ TaskScheduled(SoulByHash(souls, Hex(e.memoryHash)) # 0),
                  row |-> IF db_ok THEN Len(event_logs) + 1 ELSE 0])
    /\ LET th == listener.threads[t]
           last == IF Head(th.batch) > th.iter_last THEN Head(th.batch)
                   ELSE th.iter_last
       IN  listener' = [listener EXCEPT !.threads[t] =
                          AfterEvent([th EXCEPT !.iter_last = last])]
    /\ UNCHANGED <<deployments, upload, arweave_calls, deploy, close, lookup>>
    /\ UNCHANGED botVars

(***************************************************************************)
(* deploy_to_akash, close_deployment: orchestrator/services/akash.py       *)
(***************************************************************************)
MaxDeploys == 1      \* deploy_to_akash calls

Deploys == 1..MaxDeploys

IdleDeploy ==
    [pc |-> "idle", memory_hash |-> "none", soul_id |-> 0, deployment_id |-> 0,
     result |-> "none"]

\* calls are numbered in their order of arrival
NextDeploy(d) ==
    deploy[d].pc = "idle" /\ \A c \in Deploys : c < d => deploy[c].pc # "idle"

\* f"https://feral-bot-{memory_hash[:8]}.dcloud.app"
AkashUri(h) == <<"uri", h>>

\* a faulty variant: only a missing Soul is refused
DeployRefusedWithoutSoul(table, h) == SoulByHash(table, h) = 0

\* the two checks at the head of deploy_to_akash (akash.py 132-137): no Soul
\* with the memory hash, or a Soul whose bot_wallet is not set
DeployRefused(table, h) ==
    \/ SoulByHash(table, h) = 0
    \/ table[SoulByHash(table, h)].bot_wallet = Null

\* deploy_to_akash up to the Akash CLI call (akash.py 128-171): without a Soul
\* or without its bot_wallet it raises ValueError before any row is written;
\* otherwise the Deployment row is created with status CREATING and committed.
DeployBegin(d, h) ==
    /\ NextDeploy(d)
    /\ LET sid == SoulByHash(souls, h)
       IN  IF DeployRefused(souls, h)
           THEN /\ deploy' = [deploy EXCEPT ![d] =
                     [IdleDeploy EXCEPT !.pc = "done", !.memory_hash = h,
                                        !.result = "ValueError"]]
                /\ UNCHANGED deployments
           ELSE /\ deployments' = Append(deployments, NewDeployment(deployments, sid))
                /\ deploy' = [deploy EXCEPT ![d] =
                     [pc |-> "provisioning", memory_hash |-> h, soul_id |-> sid,
                      deployment_id |-> Len(deployments) + 1, result |-> "none"]]
    /\ UNCHANGED <<souls, event_logs, upload, arweave_calls, listener,
                   dispatched, close, lookup>>
    /\ UNCHANGED botVars

\* deploy_to_akash from the Akash CLI call on (akash.py 164-224). cli_ok: the
\* CLI ran and returned 0. Success commits the Deployment as BIDDING, then as
\* DEPLOYED, then writes the Soul's status and akash_uri; a failure marks the
\* Deployment FAILED with the error as its logs and re-raises.
DeployProvision(d, cli_ok) ==
    /\ deploy[d].pc = "provisioning"
    /\ LET dep == deploy[d].deployment_id
           sid == deploy[d].soul_id
       IN  IF cli_ok
           THEN /\ deployments' = [deployments EXCEPT ![dep].status = "DEPLOYED"]
                /\ souls' = [souls EXCEPT ![sid].status = "DEPLOYED",
                                          ![sid].akash_uri =
                                              AkashUri(deploy[d].memory_hash)]
                /\ deploy' = [deploy EXCEPT ![d].pc = "done",
                                            ![d].result = "success"]
           ELSE /\ deployments' = [deployments EXCEPT ![dep].status = "FAILED",
                                                      ![dep].logs = "error"]
                /\ UNCHANGED souls
                /\ deploy' = [deploy EXCEPT ![d].pc = "done",
                                            ![d].result = "raised"]
    /\ UNCHANGED <<event_logs, upload, arweave_calls, listener, dispatched,
                   close, lookup>>
    /\ UNCHANGED botVars

MaxCloses == 1       \* close_deployment calls

Closes == 1..MaxCloses

\* the deployment_id values a caller passes: the ids the table can hold and
\* one it never holds
DeploymentIds == 1..(MaxDeploys + 1)

IdleClose == [pc |-> "idle", deployment_id |-> 0, result |-> FALSE]

\* calls are numbered in their order of arrival
NextClose(c) ==
    close[c].pc = "idle" /\ \A q \in Closes : q < c => close[q].pc # "idle"

\* a faulty variant: closing leaves the Soul as it is
CloseKeepsSoul(table, sid) == table

\* soul.status = SoulStatus.DORMANT
CloseSoul(table, sid) == [table EXCEPT ![sid].status = "DORMANT"]

\* close_deployment up to its first commit (akash.py 255-268): an unknown
\* deployment_id is answered False with nothing written; otherwise the
\* Deployment is committed as FAILED.
CloseDeploymentBegin(c, dep) ==
    /\ NextClose(c)
    /\ IF dep \in DOMAIN deployments
       THEN /\ deployments' = [deployments EXCEPT ![dep].status = "FAILED"]
            /\ close' = [close EXCEPT ![c] =
                  [pc |-> "soul", deployment_id |-> dep, result |-> FALSE]]
       ELSE /\ UNCHANGED deployments
            /\ close' = [close EXCEPT ![c] =
                  [pc |-> "done", deployment_id |-> dep, result |-> FALSE]]
    /\ UNCHANGED <<souls, event_logs, upload, arweave_calls, listener,
                   dispatched, deploy, lookup>>
    /\ UNCHANGED botVars

\* close_deployment from the Soul query on (akash.py 270-277): the owning
\* Soul is committed as DORMANT and the call returns True.
CloseDeploymentSoul(c) ==
    /\ close[c].pc = "soul"
    /\ souls' = CloseSoul(souls, deployments[close[c].deployment_id].soul_id)
    /\ close' = [close EXCEPT ![c].pc = "done", ![c].result = TRUE]
    /\ UNCHANGED <<deployments, event_logs, upload, arweave_calls, listener,
                   dispatched, deploy, lookup>>
    /\ UNCHANGED botVars

(***************************************************************************)
(* prepare_wallet, get_soul_by_wallet: orchestrator/routers/wallet.py      *)
(***************************************************************************)
\* addresses that match PrepareWalletRequest's pattern ^0x[a-fA-F0-9]{40}$:
\* one with upper-case hex digits and the same address in lower case
WalletAddresses == {"0xAb", "0xab"}

\* the soul_id values of a request: 0 stands for a request without soul_id
\* (`if request.soul_id` is false for None and for 0)
RequestSoulIds == 0..(MaxUploads + 1)

\* the most recently created Soul with status UPLOADED and no bot_wallet
\* (order_by(Soul.created_at.desc()).first()), 0 if there is none
PendingSoul(table) ==
    LET P == {i \in DOMAIN table : /\ table[i].status = "UPLOADED"
                                   /\ table[i].bot_wallet = Null}
    IN  IF P = {} THEN 0 ELSE CHOOSE i \in P : \A j \in P : j <= i

\* the Soul prepare_wallet updates, 0 if it answers 404
PrepareWalletTarget(table, soul_id) ==
    IF soul_id # 0
    THEN IF soul_id \in DOMAIN table THEN soul_id ELSE 0
    ELSE PendingSoul(table)

\* prepare_wallet (wallet.py 43-112): soul.bot_wallet = request.wallet_address,
\* as the request spells it; 404 without a Soul to update
PrepareWallet(w, soul_id) ==
    /\ LET s == PrepareWalletTarget(souls, soul_id)
       IN  souls' = IF s # 0 THEN [souls EXCEPT ![s].bot_wallet = w] ELSE souls
    /\ UNCHANGED <<deployments, event_logs, upload, arweave_calls, listener,
                   dispatched, deploy, close, lookup>>
    /\ UNCHANGED botVars

\* db.query(Soul).filter(Soul.bot_wallet == wallet_address.lower()).first():
\* the id of the Soul found, 0 for the 404 answer
SoulByWallet(table, w) ==
    LET F == {i \in DOMAIN table : table[i].bot_wallet = Lower(w)}
    IN  IF F = {} THEN 0 ELSE CHOOSE i \in F : \A j \in F : i <= j

\* get_soul_by_wallet (wallet.py 115-140)
GetSoulByWallet(w) ==
    /\ lookup' = [wallet |-> w, soul_id |-> SoulByWallet(souls, w)]
    /\ UNCHANGED <<souls, deployments, event_logs, upload, arweave_calls,
                   listener, dispatched, deploy, close>>
    /\ UNCHANGED botVars

BotInit ==
    /\ session_cache = <<>>
    /\ now = 0
    /\ issued = {}
    /\ handler = [h \in Handlers |-> IdleHandler]
    /\ key_returns = [sid \in SessionIds |-> 0]
    /\ superseded = {}
    /\ birth_dirs = {}

OrchInit ==
    /\ souls = <<>>
    /\ deployments = <<>>
    /\ event_logs = <<>>
    /\ upload = [r \in Requests |-> IdleUpload]
    /\ arweave_calls = [h \in FileHashes |-> 0]
    /\ listener = [running |-> FALSE, contract |-> FALSE,
                   connect_failed |-> FALSE, threads |-> <<>>]
    /\ dispatched = <<>>
    /\ deploy = [d \in Deploys |-> IdleDeploy]
    /\ close = [c \in Closes |-> IdleClose]
    /\ lookup = [wallet |-> Null, soul_id |-> 0]

VaultInit == BotInit /\ OrchInit

VaultNext ==
    \/ \E sid \in SessionIds, u \in Users, ok \in BOOLEAN : ExportHandler(sid, u, ok)
    \/ \E old \in SessionIds \cup {StaleId}, new \in SessionIds, u \in Users,
          ok \in BOOLEAN :
          RefreshExportHandler(old, new, u, ok)
    \/ \E sid \in SessionIds : CancelExport(sid)
    \/ \E h \in Handlers, sid \in SessionIds : UploadHandlerBegin(h, sid)
    \/ \E h \in Handlers,
          outcome \in {"success", "failed", "birth_failed", "exception"} :
          UploadHandlerEnd(h, outcome)
    \/ \E h \in Handlers, sid \in SessionIds, ok \in BOOLEAN :
          HandleInstanceSelection(h, sid, ok)
    \/ \E d \in TickSteps : Tick(d)

VaultSpec == VaultInit /\ [][VaultNext]_vars

Init == BotInit /\ OrchInit

Next ==
    \/ \E r \in Requests, h \in FileHashes : UploadFileBegin(r, h)
    \/ \E r \in Requests, ok \in BOOLEAN : UploadFileFinish(r, ok)
    \/ \E ok \in BOOLEAN, has_contract \in BOOLEAN : ListenerStart(ok, has_contract)
    \/ ListenerStop
    \/ \E t \in Threads, ok \in BOOLEAN, latest \in LatestBlocks :
          ListenerCreateFilters(t, ok, latest)
    \/ \E t \in Threads : ListenerExit(t)
    \/ \E t \in Threads, S \in SUBSET LogIds, ok \in BOOLEAN :
          ListenerPollFeral(t, S, ok)
    \/ \E t \in Threads, S \in SUBSET LogIds, ok \in BOOLEAN :
          ListenerPollImmolation(t, S, ok)
    \/ \E t \in Threads, ok \in BOOLEAN : ListenerDispatch(t, ok)
    \/ \E d \in Deploys, h \in FileHashes : DeployBegin(d, h)
    \/ \E d \in Deploys, ok \in BOOLEAN : DeployProvision(d, ok)
    \/ \E c \in Closes, dep \in DeploymentIds : CloseDeploymentBegin(c, dep)
    \/ \E c \in Closes : CloseDeploymentSoul(c)

Spec == Init /\ [][Next]_vars

\* The listener on its own, with start() calls after stop() calls: the
\* calls of start() and stop() and the steps of the polling threads.
ListenerNext ==
    \/ \E ok \in BOOLEAN, has_contract \in BOOLEAN :
          ListenerStartAgain(ok, has_contract)
    \/ ListenerStop
    \/ \E t \in Threads, ok \in BOOLEAN, latest \in LatestBlocks :
          ListenerCreateFilters(t, ok, latest)
    \/ \E t \in Threads : ListenerExit(t)
    \/ \E t \in Threads, S \in SUBSET LogIds, ok \in BOOLEAN :
          ListenerPollFeral(t, S, ok)
    \/ \E t \in Threads, S \in SUBSET LogIds, ok \in BOOLEAN :
          ListenerPollImmolation(t, S, ok)
    \/ \E t \in Threads, ok \in BOOLEAN : ListenerDispatch(t, ok)

ListenerSpec == Init /\ [][ListenerNext]_vars

\* The wallet routes next to the operations that create Souls and write
\* their wallets: upload_file and the listener.
WalletNext ==
    \/ \E r \in Requests, h \in FileHashes : UploadFileBegin(r, h)
    \/ \E r \in Requests, ok \in BOOLEAN : UploadFileFinish(r, ok)
    \/ \E w \in WalletAddresses, soul_id \in RequestSoulIds :
          PrepareWallet(w, soul_id)
    \/ \E w \in WalletAddresses : GetSoulByWallet(w)
    \/ \E ok \in BOOLEAN, has_contract \in BOOLEAN : ListenerStart(ok, has_contract)
    \/ \E t \in Threads, ok \in BOOLEAN, latest \in LatestBlocks :
          ListenerCreateFilters(t, ok, latest)
    \/ \E t \in Threads, S \in SUBSET LogIds, ok \in BOOLEAN :
          ListenerPollFeral(t, S, ok)
    \/ \E t \in Threads, S \in SUBSET LogIds, ok \in BOOLEAN :
          ListenerPollImmolation(t, S, ok)
    \/ \E t \in Threads, ok \in BOOLEAN : ListenerDispatch(t, ok)

WalletSpec == Init /\ [][WalletNext]_vars

\* a step of a polling thread
ListenerStep ==
    \E t \in Threads :
        \/ \E ok \in BOOLEAN, latest \in LatestBlocks :
              ListenerCreateFilters(t, ok, latest)
        \/ ListenerExit(t)
        \/ \E S \in SUBSET LogIds, ok \in BOOLEAN : ListenerPollFeral(t, S, ok)
        \/ \E S \in SUBSET LogIds, ok \in BOOLEAN : ListenerPollImmolation(t, S, ok)
        \/ \E ok \in BOOLEAN : ListenerDispatch(t, ok)

\* The orchestrator with its scheduling: a polling thread that can take a
\* step takes one (it is an OS thread; sleep and the RPC calls return), a
\* started storage upload returns, a started Akash CLI call returns
\* (subprocess.run has timeout=10), and a close_deployment call that has
\* committed the Deployment goes on to the Soul. Requests from outside (uploads, start,
\* stop, deploy_to_akash and close_deployment calls) need not come.
FairSpec ==
    /\ Init /\ [][Next]_vars
    /\ WF_vars(ListenerStep)
    /\ WF_vars(\E r \in Requests, ok \in BOOLEAN : UploadFileFinish(r, ok))
    /\ WF_vars(\E d \in Deploys, ok \in BOOLEAN : DeployProvision(d, ok))
    /\ WF_vars(\E c \in Closes : CloseDeploymentSoul(c))

(***************************************************************************)
(* Claims about the session key cache (checked under VaultSpec)            *)
(***************************************************************************)

\* C1: over the get_session_private_key calls made for a session id before
\* the entry's expiry, only the first returns the private key: the key is
\* returned at most once per session.
C1_KeyReturnedOnce == \A sid \in SessionIds : key_returns[sid] <= 1

\* C2: when a handler execution h2 uses a session id while an earlier
\* upload_handler execution h1 for the same session id is still between its
\* key lookup and its end, h2 does not obtain the private key (h1 holds it):
\* h2 sees the session as not found.
C2_OneHolderPerSession ==
    \A h1 \in Handlers, h2 \in Handlers :
        ( /\ h1 < h2
          /\ handler[h1].pc = "processing"
          /\ handler[h2].pc # "idle"
          /\ handler[h2].session_id = handler[h1].session_id )
        => handler[h2].private_key = None /\ handler[h2].result = "not_found"

\* a step in which handler execution h calls get_session_private_key
CallsGetKey(h) ==
    /\ handler[h].pc = "idle"
    /\ handler'[h].pc # "idle"

\* C3: a session is stored with expiry = issue time + 300 s, and a
\* get_session_private_key call made at a time now >= expiry returns None.
C3_ExpiredReturnsNone ==
    [][ /\ \A sid \in SessionIds :
             (sid \notin DOMAIN session_cache /\ sid \in DOMAIN session_cache')
             => session_cache'[sid].expiry = now + 300
        /\ \A h \in Handlers :
             ( /\ CallsGetKey(h)
               /\ handler'[h].session_id \in DOMAIN session_cache
               /\ now >= session_cache[handler'[h].session_id].expiry )
             => handler'[h].private_key = None ]_vars

(***************************************************************************)
(* Claims about the ledger and the listener (checked under Spec)           *)
(***************************************************************************)

\* C4: in every reachable state of the Soul table there is at most one row
\* for each memory_hash, also after two upload_file requests for the same
\* content ran in parallel.
C4_UniqueMemoryHash ==
    \A i \in DOMAIN souls, j \in DOMAIN souls :
        souls[i].memory_hash = souls[j].memory_hash => i = j

\* two requests for the same content both passed the lookup; one inserted the
\* Soul and the other's insert was refused
C4_Witness ==
    \E r1 \in Requests, r2 \in Requests :
        /\ upload[r1].file_hash = upload[r2].file_hash
        /\ upload[r1].response = "success"
        /\ upload[r2].response = "http500"
        /\ Len(souls) = 1

\* C5: two upload_file requests with the same file hash, run one after the
\* other or in parallel, both complete without an error response and both
\* refer to the same single Soul: no request ends in HTTP 500, and each
\* answer carries the arweave_id of the one Soul with that hash.
C5_ResubmissionIsNoError ==
    \A r \in Requests :
        upload[r].pc = "done" =>
            /\ upload[r].response \in {"success", "exists"}
            /\ SoulByHash(souls, upload[r].file_hash) # 0
            /\ upload[r].arweave_id =
                   souls[SoulByHash(souls, upload[r].file_hash)].arweave_id

\* C6: when upload_file finds an existing Soul with the file's hash, that
\* step changes no Soul row (status, arweave_id, bot_wallet, akash_uri),
\* creates no Soul and no Deployment row, and does not call the storage
\* upload.
C6_ExistingSoulUntouched ==
    [][ \A r \in Requests :
            (upload[r].pc = "idle" /\ upload'[r].response = "exists")
            => /\ souls' = souls
               /\ deployments' = deployments
               /\ arweave_calls' = arweave_calls ]_vars

\* a request was answered "exists" for a Soul that has moved on since its
\* upload
C6_Witness ==
    \E r \in Requests :
        /\ upload[r].response = "exists"
        /\ souls[SoulByHash(souls, upload[r].file_hash)].status # "UPLOADED"

\* the event of a dispatched entry: its type and transaction hash
EventKey(d) == <<ChainLogs[d.log].event, ChainLogs[d.log].transactionHash>>

\* this step dispatches a log to its handler
Dispatches == Len(dispatched') = Len(dispatched) + 1

\* C7: delivering the same log (same event type and transaction hash) a
\* second time leaves every Soul in the status it had before that delivery,
\* whatever happened to the Soul since the first delivery was applied to it.
C7_ReplayKeepsStatus ==
    [][ ( /\ Dispatches
          /\ \E k \in DOMAIN dispatched :
                /\ EventKey(dispatched[k]) = EventKey(dispatched'[Len(dispatched')])
                /\ dispatched[k].soul # 0 )
        => \A s \in DOMAIN souls : souls'[s].status = souls[s].status ]_vars

\* C8: for each pair (event type, transaction hash) the listener dispatches
\* the event to its handler at most once.
C8_DispatchedAtMostOnce ==
    \A k1 \in DOMAIN dispatched, k2 \in DOMAIN dispatched :
        EventKey(dispatched[k1]) = EventKey(dispatched[k2]) => k1 = k2

\* C9: once the ImmolationConfirmed event of an existing Soul has been handled
\* and the FeralRegistered event for the same memory hash is handled after it,
\* the Soul is DORMANT, and stays so.
C9_ImmolationFirstStaysDormant ==
    \A k1 \in DOMAIN dispatched, k2 \in DOMAIN dispatched :
        ( /\ k1 < k2
          /\ ChainLogs[dispatched[k1].log].event = "ImmolationConfirmed"
          /\ dispatched[k1].soul # 0
          /\ ChainLogs[dispatched[k2].log].event = "FeralRegistered"
          /\ ChainLogs[dispatched[k2].log].memoryHash =
                 ChainLogs[dispatched[k1].log].memoryHash )
        => souls[dispatched[k1].soul].status = "DORMANT"

\* C10: after the listener has handled a FeralRegistered event whose memory
\* hash matched no Soul, the EventLog row saved for that event has
\* processed = 2 (failed).
C10_UnmatchedEventMarkedFailed ==
    \A k \in DOMAIN dispatched :
        ( /\ ChainLogs[dispatched[k].log].event = "FeralRegistered"
          /\ dispatched[k].soul = 0
          /\ dispatched[k].row # 0 )
        => event_logs[dispatched[k].row].processed = 2

\* the edges of the Soul lifecycle and its terminal statuses
LifecycleEdges ==
    { <<"PENDING", "UPLOADED">>, <<"UPLOADED", "REGISTERED">>,
      <<"REGISTERED", "DEPLOYING">>, <<"DEPLOYING", "DEPLOYED">>,
      <<"DEPLOYED", "ACTIVE">> }

TerminalStatuses == {"DORMANT", "ERROR"}

\* C11: every change of a Soul's status is one of the edges PENDING->UPLOADED,
\* UPLOADED->REGISTERED, REGISTERED->DEPLOYING, DEPLOYING->DEPLOYED,
\* DEPLOYED->ACTIVE, any status->DORMANT, or non-terminal status->ERROR.
C11_OnlyLifecycleEdges ==
    [][ \A s \in DOMAIN souls :
            souls'[s].status # souls[s].status
            => \/ <<souls[s].status, souls'[s].status>> \in LifecycleEdges
               \/ souls'[s].status = "DORMANT"
               \/ /\ souls'[s].status = "ERROR"
                  /\ souls[s].status \notin TerminalStatuses ]_vars

\* C12: when the FeralRegistered handler runs for a Soul whose status is not
\* UPLOADED, the Soul's status and bot_wallet are left as they were.
C12_RegisteredOnlyFromUploaded ==
    [][ ( /\ Dispatches
          /\ ChainLogs[dispatched'[Len(dispatched')].log].event = "FeralRegistered"
          /\ dispatched'[Len(dispatched')].soul # 0
          /\ souls[dispatched'[Len(dispatched')].soul].status # "UPLOADED" )
        => /\ souls'[dispatched'[Len(dispatched')].soul].status =
                  souls[dispatched'[Len(dispatched')].soul].status
           /\ souls'[dispatched'[Len(dispatched')].soul].bot_wallet =
                  souls[dispatched'[Len(dispatched')].soul].bot_wallet ]_vars

\* this step ends the deploy_to_akash call d
DeployEnds(d) == deploy[d].pc = "provisioning" /\ deploy'[d].pc = "done"

\* C13: when the Soul has become DORMANT after deploy_to_akash read it, the
\* end of deploy_to_akash does not write DEPLOYED over it: the Soul stays
\* DORMANT.
C13_DormantNotOverwritten ==
    [][ \A d \in Deploys :
            (DeployEnds(d) /\ souls[deploy[d].soul_id].status = "DORMANT")
            => souls'[deploy[d].soul_id].status = "DORMANT" ]_vars

\* C15: when deploy_to_akash for a REGISTERED Soul reaches the provisioning
\* step, a Deployment row with status CREATING has been created for the Soul
\* and the Soul's status has been changed to DEPLOYING.
C15_DeployingBeforeProvisioning ==
    [][ \A d \in Deploys :
            ( /\ deploy[d].pc = "idle"
              /\ deploy'[d].pc = "provisioning"
              /\ souls[deploy'[d].soul_id].status = "REGISTERED" )
            => /\ deployments'[deploy'[d].deployment_id].status = "CREATING"
               /\ deployments'[deploy'[d].deployment_id].soul_id = deploy'[d].soul_id
               /\ souls'[deploy'[d].soul_id].status = "DEPLOYING" ]_vars

\* C16: when provisioning fails after the Deployment row was created,
\* deploy_to_akash ends with the Deployment FAILED, its logs holding the
\* failure reason, and the owning Soul in status ERROR.
C16_FailureMarksSoulError ==
    [][ \A d \in Deploys :
            (DeployEnds(d) /\ deploy'[d].result = "raised")
            => /\ deployments'[deploy[d].deployment_id].status = "FAILED"
               /\ deployments'[deploy[d].deployment_id].logs # ""
               /\ souls'[deploy[d].soul_id].status = "ERROR" ]_vars

\* C17: when provisioning succeeds, deploy_to_akash ends with the Soul
\* DEPLOYED, its akash_uri set to the deployment URI and the Deployment
\* DEPLOYED, and the Soul was DEPLOYING immediately before.
C17_SuccessFromDeploying ==
    [][ \A d \in Deploys :
            (DeployEnds(d) /\ deploy'[d].result = "success")
            => /\ souls'[deploy[d].soul_id].status = "DEPLOYED"
               /\ souls'[deploy[d].soul_id].akash_uri = AkashUri(deploy[d].memory_hash)
               /\ deployments'[deploy[d].deployment_id].status = "DEPLOYED"
               /\ souls[deploy[d].soul_id].status = "DEPLOYING" ]_vars

\* the pcs of a polling thread inside an iteration of the loop of _poll_events
InLoop == {"loop", "sleep", "immolation", "feral_loop", "immolation_loop"}

\* C19: a polling thread that is inside the poll loop, the first iteration
\* included, leaves the loop only after stop() has cleared running.
C19_LoopEndsOnlyOnStop ==
    [][ \A t \in DOMAIN listener.threads :
            ( /\ listener.threads[t].pc \in InLoop
              /\ listener'.threads[t].pc = "exited" )
            => ~listener.running ]_vars

\* the FeralRegistered handler has moved Soul s to REGISTERED
RegisteredByListener(s) ==
    \E k \in DOMAIN dispatched :
        /\ ChainLogs[dispatched[k].log].event = "FeralRegistered"
        /\ dispatched[k].soul = s

\* no polling thread is in its loop
ListenerDown ==
    \A t \in DOMAIN listener.threads : listener.threads[t].pc \notin InLoop

\* C14: whenever the listener thread has moved a Soul to REGISTERED while
\* handling a FeralRegistered event, eventually a Deployment row for that Soul
\* exists (deploy_to_akash has run for its memory hash), as long as the
\* polling thread stays in its loop.
C14_RegistrationStartsProvisioning ==
    \A s \in 1..MaxUploads :
        RegisteredByListener(s)
        ~> \/ \E dep \in DOMAIN deployments : deployments[dep].soul_id = s
           \/ ListenerDown

\* the dispatches for memory hash h in which a deployment task was scheduled
EventProvisionings(h) ==
    {k \in DOMAIN dispatched :
        dispatched[k].task /\ Hex(ChainLogs[dispatched[k].log].memoryHash) = h}

\* the deploy_to_akash calls made for memory hash h on request
RequestedProvisionings(h) ==
    {d \in Deploys : deploy[d].pc # "idle" /\ deploy[d].memory_hash = h}

EmittedBeforeStart(i) ==
    \E t \in DOMAIN listener.threads :
        /\ listener.threads[t].pc \in InLoop
        /\ ChainLogs[i].blockNumber <= listener.threads[t].from_block

\* C20: no event is skipped: a log emitted while the listener was not running
\* is handled after the listener has started, as long as the polling thread
\* stays in its loop.
C20_NoEventSkipped ==
    \A i \in LogIds :
        EmittedBeforeStart(i)
        ~> \/ \E k \in DOMAIN dispatched : dispatched[k].log = i
           \/ ListenerDown

(***************************************************************************)
(* Further claims about the session key cache (checked under VaultSpec)    *)
(***************************************************************************)

\* C24: after the user has refreshed a session's key or cancelled its export,
\* get_session_private_key for the superseded session id returns None.
C24_SupersededNotRetrievable ==
    [][ \A h \in Handlers :
            (CallsGetKey(h) /\ handler'[h].session_id \in superseded)
            => handler'[h].private_key = None ]_vars

\* this step is an export_handler or refresh_export_handler call: it draws a
\* session id; NewSession is the id it drew
Issues == issued' # issued
NewSession == CHOOSE sid \in issued' : sid \notin issued

\* C25: when key-pair generation fails in export_handler or
\* refresh_export_handler (no session is stored for the id drawn), the session
\* store after the call equals the store before the call.
C25_KeygenFailureKeepsStore ==
    [][ (Issues /\ NewSession \notin DOMAIN session_cache')
        => session_cache' = session_cache ]_vars

\* C26: immediately after export_handler or refresh_export_handler has stored
\* a new session, the session store holds no entry whose expiry is earlier
\* than the current time.
C26_IssuanceSweeps ==
    [][ (Issues /\ NewSession \in DOMAIN session_cache')
        => \A sid \in DOMAIN session_cache' : ~(session_cache'[sid].expiry < now) ]_vars

\* the reasons for which session sid is unusable: it never existed, it has
\* expired, it was cleared, or its key was already retrieved
Unusable(sid) ==
    \/ sid \notin issued
    \/ sid \in issued /\ sid \notin DOMAIN session_cache
    \/ sid \in DOMAIN session_cache /\ now > session_cache[sid].expiry
    \/ key_returns[sid] >= 1

\* C27: get_session_private_key returns None for every unusable session,
\* whatever the reason it is unusable for.
C27_UnusableLooksTheSame ==
    [][ \A h \in Handlers :
            (CallsGetKey(h) /\ Unusable(handler'[h].session_id))
            => handler'[h].private_key = None ]_vars

\* C28: session private key material is never written to a file: no
\* directory holding session_key.pem exists on disk.
C28_KeyOnlyInMemory == birth_dirs = {}

\* C34: when a create_birth request has ended, with success or with an
\* HTTP 500, the directory holding session_key.pem is gone.
C34_BirthDirRemovedOnEveryExit ==
    [][ \A h \in Handlers :
            ( /\ handler[h].pc = "processing"
              /\ handler'[h].pc = "done"
              /\ handler'[h].result \in {"success", "birth_failed"} )
            => handler[h].session_id \notin birth_dirs' ]_vars

(***************************************************************************)
(* Further claims about the orchestrator (checked under Spec)              *)
(***************************************************************************)
\* C23: once a handler has committed a Soul status change for an event, the
\* EventLog row saved for that event has processed = 1.
C23_HandledEventMarkedProcessed ==
    \A k \in DOMAIN dispatched :
        (dispatched[k].soul # 0 /\ dispatched[k].row # 0)
        => event_logs[dispatched[k].row].processed = 1

\* C29: an upload_file call that found no Soul for the file's hash ends with
\* exactly one Soul of that memory_hash in the table; the row it inserts has
\* status UPLOADED and an arweave_id that is set, and when the storage upload
\* raised that id is the placeholder made of "mock_" and the hash.
C29_NewHashCreatesOneSoul ==
    [][ \A r \in Requests :
            (upload[r].pc = "arweave" /\ upload'[r].pc = "done")
            => LET h == upload[r].file_hash
                   n == Len(souls')
               IN  /\ Cardinality({i \in DOMAIN souls' :
                                      souls'[i].memory_hash = h}) = 1
                   /\ SoulByHash(souls, h) = 0
                        => /\ n = Len(souls) + 1
                           /\ souls'[n].memory_hash = h
                           /\ souls'[n].status = "UPLOADED"
                           /\ souls'[n].arweave_id # None
                           /\ upload'[r].storage = "raised"
                                => souls'[n].arweave_id = <<"mock", h>> ]_vars

\* a request whose storage upload raised has created its Soul with the
\* placeholder id
C29_Witness ==
    \E r \in Requests :
        /\ upload[r].pc = "done"
        /\ upload[r].response = "success"
        /\ upload[r].storage = "raised"
        /\ souls[upload[r].soul_id].memory_hash = upload[r].file_hash

\* C30: within one iteration of the polling loop the events are handled in
\* chain order across both event types: no event is handled after an event
\* of the same iteration that lies later on the chain.
C30_IterationInChainOrder ==
    [][ \A t \in DOMAIN listener.threads :
            (Dispatches /\ listener.threads[t].pc \in {"feral_loop", "immolation_loop"})
            => Head(listener.threads[t].batch) > listener.threads[t].iter_last ]_vars

\* C21: when the last start() call ended at a failed connect(), the listener
\* comes to poll for events all the same (checked under FairSpec, where
\* nobody is obliged to call start() again).
C21_FailedConnectIsRetried ==
    listener.connect_failed
    ~> (\E t \in DOMAIN listener.threads : listener.threads[t].pc \in InLoop)

\* this step is the first commit of close_deployment call c for a known id
CloseCommitsDeployment(c) == close[c].pc = "idle" /\ close'[c].pc = "soul"

\* this step is the second commit and the return of close_deployment call c
CloseReturnsTrue(c) == close[c].pc = "soul" /\ close'[c].pc = "done"

\* this step is a close_deployment call c that returns at the lookup
CloseReturnsAtLookup(c) == close[c].pc = "idle" /\ close'[c].pc = "done"

C31_OneRowPerEvent ==
    \A i, j \in DOMAIN event_logs :
        ( /\ event_logs[i].event_type = event_logs[j].event_type
          /\ event_logs[i].tx_hash = event_logs[j].tx_hash )
        => i = j

\* C32: whenever a handler has changed a Soul because of an event, an
\* EventLog row for that event's (event_type, tx_hash) exists.
C32_AppliedEventIsPersisted ==
    \A k \in DOMAIN dispatched :
        dispatched[k].soul # 0
        => \E i \in DOMAIN event_logs :
               <<event_logs[i].event_type, event_logs[i].tx_hash>>
                   = EventKey(dispatched[k])

\* the ids of the rows of a table
RowIds(table) == {table[i].id : i \in DOMAIN table}

\* C33: no step deletes a Soul, Deployment or EventLog row: the set of row
\* ids of each table only grows.
C33_NoRowDeleted ==
    [][ /\ RowIds(souls) \subseteq RowIds(souls')
        /\ RowIds(deployments) \subseteq RowIds(deployments')
        /\ RowIds(event_logs) \subseteq RowIds(event_logs') ]_vars

\* every table holds rows, an immolation event was applied to a Soul and a
\* close_deployment call has returned True: all rows are still there
C33_Witness ==
    /\ RowIds(souls) = 1..Len(souls) /\ Len(souls) >= 1
    /\ RowIds(deployments) = 1..Len(deployments) /\ Len(deployments) >= 1
    /\ RowIds(event_logs) = 1..Len(event_logs) /\ Len(event_logs) >= 2
    /\ \E k \in DOMAIN dispatched :
          /\ ChainLogs[dispatched[k].log].event = "ImmolationConfirmed"
          /\ dispatched[k].soul # 0
    /\ \E c \in Closes : close[c].pc = "done" /\ close[c].result = TRUE

\* C36: whenever running is True, a polling thread is alive.
C36_RunningMeansThreadAlive ==
    listener.running
    => \E t \in DOMAIN listener.threads : listener.threads[t].pc # "exited"

\* C37: a Soul with status DEPLOYED has a Deployment row with status
\* DEPLOYED, in every committed state, those between the commits of
\* deploy_to_akash and close_deployment included.
C37_DeployedSoulHasDeployedRow ==
    \A s \in DOMAIN souls :
        souls[s].status = "DEPLOYED"
        => \E d \in DOMAIN deployments :
               deployments[d].soul_id = s /\ deployments[d].status = "DEPLOYED"

\* this step is the start of deploy_to_akash call d
DeployStarts(d) == deploy[d].pc = "idle" /\ deploy'[d].pc # "idle"

\* C38: deploy_to_akash for a memory hash with no Soul, or with a Soul whose
\* bot_wallet is not set, raises an error, creates no Deployment row and
\* modifies no Soul.
C38_RefusedDeployChangesNothing ==
    [][ \A d \in Deploys :
            LET h == deploy'[d].memory_hash
                s == SoulByHash(souls, h)
            IN  (DeployStarts(d) /\ (s = 0 \/ souls[s].bot_wallet = Null))
                => /\ deploy'[d].pc = "done"
                   /\ deploy'[d].result = "ValueError"
                   /\ deployments' = deployments
                   /\ souls' = souls ]_vars

\* a deploy_to_akash call for an uploaded Soul without bot_wallet has raised
C38_Witness ==
    \E d \in Deploys :
        /\ deploy[d].pc = "done"
        /\ deploy[d].result = "ValueError"
        /\ SoulByHash(souls, deploy[d].memory_hash) # 0
        /\ souls[SoulByHash(souls, deploy[d].memory_hash)].bot_wallet = Null
        /\ deployments = <<>>

(***************************************************************************)
(* Claims about restarting the listener (checked under ListenerSpec)       *)
(***************************************************************************)
\* the polling threads that are inside the loop of _poll_events
ThreadsInLoop == {t \in DOMAIN listener.threads : listener.threads[t].pc \in InLoop}

\* C35: at most one polling thread executes the listener loop at any time,
\* for any sequence of start() and stop() calls.
C35_AtMostOnePollingThread == Cardinality(ThreadsInLoop) <= 1

(***************************************************************************)
(* Claims about the wallet routes (checked under WalletSpec)               *)
(***************************************************************************)
\* address w was written to a Soul by the FeralRegistered handler and is
\* still what that Soul stores
WrittenByHandler(w) ==
    \E k \in DOMAIN dispatched :
        /\ ChainLogs[dispatched[k].log].event = "FeralRegistered"
        /\ ChainLogs[dispatched[k].log].botWallet = w
        /\ dispatched[k].soul # 0
        /\ souls[dispatched[k].soul].bot_wallet = Lower(w)

\* C39: a wallet address stored on a Soul can be looked up again:
\* get_soul_by_wallet(W) finds a Soul whenever a Soul stores W as
\* prepare_wallet wrote it or as the FeralRegistered handler wrote it.
C39_StoredWalletIsFound ==
    [][ lookup' # lookup
        => LET w == lookup'.wallet
           IN  ( \/ \E s \in DOMAIN souls : souls[s].bot_wallet = w
                 \/ WrittenByHandler(w) )
               => lookup'.soul_id # 0 ]_vars

====
